---- MODULE Spec2Model ----
(***************************************************************************)
(* iCalendar event lifecycle of send-outlook-mail-calendar:                *)
(*   lib/calendar.ts        event constructor, update/cancel transitions,  *)
(*                          serializer                                     *)
(*   lib/calendar-store.ts  metadata store (uid -> snapshot)               *)
(*   app/api/send-email     route that renders and mails REQUEST/CANCEL    *)
(*   app/api/cancel-meeting route that rebuilds a CANCEL from a snapshot   *)
(*                                                                         *)
(* Strings are sequences of one-character strings.  An optional value      *)
(* (a property that may be undefined) is a sequence of length 0 or 1.      *)
(***************************************************************************)
EXTENDS Integers, Sequences, FiniteSets, TLC

VARIABLES
    config,     \* process.env: FROM_EMAIL, SMTP_FROM_EMAIL, SMTP_FROM_NAME
    orig,       \* argument of the last library call (optional event)
    cur,        \* event returned by the last library call (optional event)
    lastOp,     \* "none" | "create" | "adopt" | "update" | "cancel"
    lastPatch,  \* patch passed to the last update (optional)
    chain,      \* history of one event object: <<[op, seq, method, explicitSeq]>>
    store,      \* data/calendar-store.json: uid -> optional snapshot
    sent,       \* calendar messages handed to sendMail, oldest first
    resp,       \* outcome of the last route request
    transporter, \* the last handler's SMTP transporter when it returned
    posted,     \* to, cc and "has a calendarEvent" of the body of the last
                \* request, when it was a POST /api/send-email (optional)
    saving,     \* per process: where its saveInviteMeta call stands
    before,     \* the store file when the processes started
    logical,    \* logical line handed to foldLine (optional)
    folded,     \* what foldLine returned for it (optional)
    input,      \* event handed to generateICalContent (optional)
    ics         \* what generateICalContent returned for it (optional)

libVars == <<orig, cur, lastOp, lastPatch, chain>>
routeVars == <<store, sent, resp, transporter, posted>>
storeVars == <<saving, before>>
textVars == <<logical, folded, input, ics>>
vars == <<config, orig, cur, lastOp, lastPatch, chain, store, sent, resp,
          transporter, posted, saving, before, logical, folded, input, ics>>

-----------------------------------------------------------------------------
(* Bounds of the model *)

MaxChain == 4
MaxSeq == 2
MaxSent == 2

-----------------------------------------------------------------------------
(* Optional values and JavaScript truthiness *)

None == <<>>
Some(x) == <<x>>
IsSome(o) == o # <<>>
Val(o) == o[1]

\* a string is truthy unless undefined or empty
TruthyStr(o) == IsSome(o) /\ Val(o) # <<>>
\* a number is truthy unless undefined or 0
TruthyNum(o) == IsSome(o) /\ Val(o) # 0
\* o || d  on optional strings, with a string result
OrStr(o, d) == IF TruthyStr(o) THEN Val(o) ELSE d
\* o || d  on optional numbers
OrNum(o, d) == IF TruthyNum(o) THEN Val(o) ELSE d
\* o || d  on optional enum members (non-empty string constants)
OrTok(o, d) == IF IsSome(o) THEN Val(o) ELSE d

-----------------------------------------------------------------------------
(* Character data *)

LowerCase == {"a","b","c","d","e","f","g","h","i","j","k","l","m",
              "n","o","p","q","r","s","t","u","v","w","x","y","z"}
UpperCase == {"A","B","C","D","E","F","G","H","I","J","K","L","M",
              "N","O","P","Q","R","S","T","U","V","W","X","Y","Z"}
Digits == {"0","1","2","3","4","5","6","7","8","9"}
AlphaNum == LowerCase \cup UpperCase \cup Digits

\* 'DEDE_SYSTEM@dit.daikin.co.jp'
DEFAULT_FROM_EMAIL ==
    <<"D","E","D","E","_","S","Y","S","T","E","M","@",
      "d","i","t",".","d","a","i","k","i","n",".","c","o",".","j","p">>
\* 'DEDE_SYSTEM'
DEFAULT_FROM_NAME == <<"D","E","D","E","_","S","Y","S","T","E","M">>
\* 'dit.daikin.co.jp'
DEFAULT_UID_DOMAIN ==
    <<"d","i","t",".","d","a","i","k","i","n",".","c","o",".","j","p">>

STR_ORGANIZER_CN == <<"O","R","G","A","N","I","Z","E","R",";","C","N","=">>
STR_MAILTO == <<":","m","a","i","l","t","o",":">>

\* inputs: sender addresses, names, uids
\* s starts with pre / ends with suf
StartsWith(s, pre) == Len(s) >= Len(pre) /\ SubSeq(s, 1, Len(pre)) = pre
EndsWith(s, suf) ==
    Len(s) >= Len(suf) /\ SubSeq(s, Len(s) - Len(suf) + 1, Len(s)) = suf

\* process.env.ALLOWED_EMAIL_DOMAIN || '@dit.daikin.co.jp'
ALLOWED_DOMAIN == <<"@","d","i","t",".","d","a","i","k","i","n",".","c","o",".","j","p">>
AddrAki == <<"a","k","i","@","d","i","t",".","d","a","i","k","i","n",".","c","o",".","j","p">>
AddrBoss == <<"b","o","s","s","@","x",".","j","p">>
AddrOps == <<"o","p","s","@","x",".","j","p">>
DomainX == <<"x",".","j","p">>
NameAl == <<"A","l">>
NameSemi == <<"K",";","o">>
Uid1 == <<"m","1","@","x",".","j","p">>
Uid2 == <<"m","2","@","x",".","j","p">>

\* number of occurrences of the character c in s
CountChar(s, c) == Cardinality({ i \in 1..Len(s) : s[i] = c })

\* String.prototype.replace(/c/g, r) for a one-character pattern
RECURSIVE ReplaceAll(_, _, _)
ReplaceAll(s, c, r) ==
    IF s = <<>> THEN <<>>
    ELSE IF Len(s) = 1 THEN (IF s[1] = c THEN r ELSE s)
    ELSE LET h == Len(s) \div 2
         IN  ReplaceAll(SubSeq(s, 1, h), c, r)
             \o ReplaceAll(SubSeq(s, h + 1, Len(s)), c, r)

-----------------------------------------------------------------------------
(* Dates.  A date string is [fmt, t]: "iso" is the form Date.toISOString    *)
(* returns and new Date() parses, "basic" is YYYYMMDDTHHMMSSZ, "junk" is    *)
(* any other text; a Date object passed to createCalendarEvent is "Date".   *)

InvalidDate == "Invalid Date"
\* instants used as inputs; AddHour is Date.now() + 60 * 60 * 1000
T1 == "2025-01-20T10:00:00Z"
T2 == "2025-01-20T11:00:00Z"
T3 == "2025-01-20T12:00:00Z"
AddHour(t) == IF t = T1 THEN T2 ELSE T3
IsoStr(t) == [fmt |-> "iso", t |-> t]
BasicStr(t) == [fmt |-> "basic", t |-> t]
DateObj(t) == [fmt |-> "Date", t |-> t]

\* new Date(value).getTime(); V8 parses the ISO form only, the basic form and
\* other text give an Invalid Date
ParseDate(s) == IF s.fmt = "iso" THEN s.t ELSE InvalidDate

\* /^(\d{8}T\d{6}Z)$/.test(value)
isBasicDateTime(s) == s.fmt = "basic"

-----------------------------------------------------------------------------
(* lib/calendar.ts *)

\* inputs of generateEventUID: Date.now() and Math.random().toString(36).substring(2, 15)
\* and the instant new Date() returns
GenInputs == { [ts |-> <<"1","7">>, rnd |-> <<"k","3">>, now |-> T1],
               [ts |-> <<"1","8">>, rnd |-> <<>>, now |-> T1] }

generateEventUID(cfg, g) ==
    g.ts \o <<"-">> \o g.rnd \o <<"@">> \o OrStr(cfg.FROM_EMAIL, DEFAULT_FROM_EMAIL)

escapeICalText(text) ==
    LET s1 == ReplaceAll(text, "\\", <<"\\","\\">>)
        s2 == ReplaceAll(s1, ";", <<"\\",";">>)
        s3 == ReplaceAll(s2, ",", <<"\\",",">>)
        s4 == ReplaceAll(s3, "\n", <<"\\","n">>)
    IN  ReplaceAll(s4, "\r", <<>>)

FOLD_AT == 75

RECURSIVE FoldRest_NoSpace(_)
\* variant: the continuation is not prefixed with a space
FoldRest_NoSpace(remaining) ==
    IF Len(remaining) > FOLD_AT
    THEN SubSeq(remaining, 1, FOLD_AT) \o <<"\r","\n">>
         \o FoldRest_NoSpace(SubSeq(remaining, FOLD_AT + 1, Len(remaining)))
    ELSE remaining

\* variant: the continuation is prefixed with two spaces
FoldStep_TwoSpaces(remaining) ==
    <<" ", " ">> \o SubSeq(remaining, FOLD_AT + 1, Len(remaining))

\* remaining = ' ' + remaining.substring(75)
FoldStep(remaining) == <<" ">> \o SubSeq(remaining, FOLD_AT + 1, Len(remaining))

RECURSIVE FoldRest(_)
\* the while loop of foldLine and the final join('\r\n')
FoldRest(remaining) ==
    IF Len(remaining) > FOLD_AT
    THEN SubSeq(remaining, 1, FOLD_AT) \o <<"\r","\n">>
         \o FoldRest(FoldStep(remaining))
    ELSE remaining

RECURSIVE Remainders(_)
\* the values `remaining` takes at the head of the while loop
Remainders(remaining) ==
    IF Len(remaining) > FOLD_AT
    THEN {remaining} \cup Remainders(FoldStep(remaining))
    ELSE {remaining}

foldLine(line) == IF Len(line) <= FOLD_AT THEN line ELSE FoldRest(line)

\* the ORGANIZER content line of generateICalContent
OrganizerLine(event, cfg) ==
    IF IsSome(event.organizer) /\ TruthyStr(Val(event.organizer).email)
    THEN LET organizerName == OrStr(Val(event.organizer).name, DEFAULT_FROM_NAME)
         IN  foldLine(STR_ORGANIZER_CN \o escapeICalText(organizerName)
                      \o STR_MAILTO \o Val(Val(event.organizer).email))
    ELSE LET fromEmail == OrStr(cfg.SMTP_FROM_EMAIL, DEFAULT_FROM_EMAIL)
             fromName == OrStr(cfg.SMTP_FROM_NAME, DEFAULT_FROM_NAME)
         IN  foldLine(STR_ORGANIZER_CN \o escapeICalText(fromName)
                      \o STR_MAILTO \o fromEmail)

\* toISOString() of an Invalid Date throws a RangeError
RenderThrows(event) ==
    /\ IsSome(event.start) /\ IsSome(event.end)
    /\ \/ ParseDate(Val(event.start)) = InvalidDate
       \/ ParseDate(Val(event.end)) = InvalidDate

ThrownDoc ==
    [threw |-> TRUE, METHOD |-> "", UID |-> <<>>, SEQUENCE |-> 0, DTSTART |-> None,
     DTEND |-> None, ORGANIZER |-> <<>>, STATUS |-> ""]

\* the property lines of the rendered document that carry the event's
\* identity and lifecycle (text after "NAME:"; ORGANIZER is the whole line)
generateICalContent(event, cfg, g) ==
    IF RenderThrows(event) THEN ThrownDoc
    ELSE
    [threw |-> FALSE,
     METHOD |-> OrTok(event.method, "REQUEST"),
     UID |-> OrStr(event.uid, generateEventUID(cfg, g)),
     SEQUENCE |-> IF IsSome(event.sequence) THEN Val(event.sequence) ELSE 0,
     DTSTART |-> IF IsSome(event.start) /\ IsSome(event.end)
                 THEN Some(BasicStr(ParseDate(Val(event.start)))) ELSE None,
     DTEND |-> IF IsSome(event.start) /\ IsSome(event.end)
               THEN Some(BasicStr(ParseDate(Val(event.end)))) ELSE None,
     ORGANIZER |-> OrganizerLine(event, cfg),
     STATUS |-> OrTok(event.status, "CONFIRMED")]

\* params.start instanceof Date ? params.start.toISOString() : params.start
ParamDate(o) ==
    IF IsSome(o) /\ Val(o).fmt = "Date" THEN Some(IsoStr(Val(o).t)) ELSE o

createCalendarEvent(params, cfg, g) ==
    [uid |-> Some(OrStr(params.uid, generateEventUID(cfg, g))),
     start |-> ParamDate(params.start),
     end |-> ParamDate(params.end),
     organizer |-> IF TruthyStr(params.organizerName) /\ TruthyStr(params.organizerEmail)
                   THEN Some([name |-> params.organizerName,
                              email |-> params.organizerEmail])
                   ELSE None,
     method |-> Some(OrTok(params.method, "REQUEST")),
     status |-> Some(OrTok(params.status, "CONFIRMED")),
     sequence |-> Some(OrNum(params.sequence, 0))]

\* variant: the patch is spread last, so its sequence and method win
createUpdatedCalendarEvent_PatchLast(originalEvent, updates) ==
    LET spread(f) == IF IsSome(updates[f]) THEN Val(updates[f]) ELSE originalEvent[f]
        base == [originalEvent EXCEPT
                    !.sequence = Some(OrNum(originalEvent.sequence, 0) + 1),
                    !.method = Some("REQUEST")]
    IN  [uid |-> spread("uid"),
         start |-> spread("start"),
         end |-> spread("end"),
         organizer |-> spread("organizer"),
         status |-> spread("status"),
         sequence |-> IF IsSome(updates.sequence) THEN Val(updates.sequence)
                      ELSE base.sequence,
         method |-> IF IsSome(updates.method) THEN Val(updates.method)
                    ELSE base.method]

\* { ...originalEvent, ...updates, sequence: ..., method: 'REQUEST' }
\* a patch has the fields of an event, each None (key absent) or Some(value)
createUpdatedCalendarEvent(originalEvent, updates) ==
    LET spread(f) == IF IsSome(updates[f]) THEN Val(updates[f]) ELSE originalEvent[f]
    IN  [uid |-> spread("uid"),
         start |-> spread("start"),
         end |-> spread("end"),
         organizer |-> spread("organizer"),
         status |-> spread("status"),
         sequence |-> Some(OrNum(originalEvent.sequence, 0) + 1),
         method |-> Some("REQUEST")]

\* variant: the cancellation is always numbered 1 (original 0, cancel 1)
createCancelledCalendarEvent_SeqOne(originalEvent, cfg) ==
    [originalEvent EXCEPT
        !.method = Some("CANCEL"),
        !.status = Some("CANCELLED"),
        !.sequence = Some(1),
        !.organizer =
            IF IsSome(originalEvent.organizer) THEN originalEvent.organizer
            ELSE Some([name |-> Some(DEFAULT_FROM_NAME),
                       email |-> Some(OrStr(cfg.SMTP_FROM_EMAIL, DEFAULT_FROM_EMAIL))])]

createCancelledCalendarEvent(originalEvent, cfg) ==
    [originalEvent EXCEPT
        !.method = Some("CANCEL"),
        !.status = Some("CANCELLED"),
        !.sequence = Some(OrNum(originalEvent.sequence, 0) + 1),
        !.organizer =
            IF IsSome(originalEvent.organizer) THEN originalEvent.organizer
            ELSE Some([name |-> Some(DEFAULT_FROM_NAME),
                       email |-> Some(OrStr(cfg.SMTP_FROM_EMAIL, DEFAULT_FROM_EMAIL))])]


-----------------------------------------------------------------------------
(* Inputs of the library's callers *)

Configs ==
    { [FROM_EMAIL |-> None, SMTP_FROM_EMAIL |-> None, SMTP_FROM_NAME |-> None],
      [FROM_EMAIL |-> Some(DomainX), SMTP_FROM_EMAIL |-> None, SMTP_FROM_NAME |-> None],
      [FROM_EMAIL |-> None, SMTP_FROM_EMAIL |-> None, SMTP_FROM_NAME |-> Some(NameAl)],
      [FROM_EMAIL |-> Some(AddrOps), SMTP_FROM_EMAIL |-> Some(AddrOps),
       SMTP_FROM_NAME |-> Some(NameAl)] }

\* parameter objects passed to createCalendarEvent
CreateParams ==
    [uid : {None, Some(Uid1)},
     start : {None, Some(IsoStr(T1)), Some(DateObj(T1))},
     end : {Some(IsoStr(T2)), Some(IsoStr(T1))},
     organizerName : {None, Some(NameSemi)},
     organizerEmail : {None, Some(AddrBoss)},
     method : {None, Some("CANCEL")},
     status : {None, Some("CANCELLED")},
     sequence : {None, Some(MaxSeq)}]

\* event objects a caller writes as a literal (CalendarEvent leaves every
\* property optional)
LiteralEvents ==
    { [uid |-> Some(Uid1), start |-> Some(IsoStr(T1)), end |-> Some(IsoStr(T2)),
       organizer |-> org, sequence |-> sq, method |-> Some("REQUEST"),
       status |-> Some("CONFIRMED")] :
         org \in {None, Some([name |-> Some(NameAl), email |-> None]),
                  Some([name |-> None, email |-> Some(AddrBoss)])},
         sq \in {None, Some(1)} }
    \cup
    { [uid |-> None, start |-> None, end |-> None, organizer |-> None,
       sequence |-> None, method |-> None, status |-> None] }

NoPatch ==
    [uid |-> None, start |-> None, end |-> None, organizer |-> None,
     sequence |-> None, method |-> None, status |-> None]

\* patches passed to createUpdatedCalendarEvent; the send page passes a whole
\* event object, so a patch may carry uid, sequence and method
Patches ==
    { NoPatch,
      [NoPatch EXCEPT !.start = Some(Some(IsoStr(T2))), !.status = Some(Some("TENTATIVE"))],
      [NoPatch EXCEPT !.organizer = Some(None)],
      [uid |-> Some(Some(Uid2)), start |-> Some(Some(IsoStr(T1))),
       end |-> Some(Some(IsoStr(T2))),
       organizer |-> Some(Some([name |-> Some(DEFAULT_FROM_NAME),
                                email |-> Some(DEFAULT_FROM_EMAIL)])),
       sequence |-> Some(Some(0)), method |-> Some(Some("CANCEL")),
       status |-> Some(Some("CANCELLED"))] }

\* the processes that call saveInviteMeta, and a process outside a call
Procs == {1, 2}
Idle == [pc |-> "idle", meta |-> None, local |-> None]

\* outcome of a request: the route, the HTTP status, whether a calendar
\* message was handed to sendMail, the uid the request named, and what the
\* cancel route had to build on (store hit, EML snapshot, basic dates in body)
\* and the snapshot it went on with (stored, None when it had none)
NoFound == [hit |-> FALSE, eml |-> FALSE, basic |-> FALSE]
NoResp == [route |-> "none", status |-> 0, uid |-> None, mailed |-> FALSE,
           found |-> NoFound, snap |-> None]

-----------------------------------------------------------------------------
(* State machine of a caller of lib/calendar.ts *)

Init ==
    /\ config \in Configs
    /\ orig = None /\ cur = None /\ lastOp = "none" /\ lastPatch = None
    /\ chain = <<>>
    /\ store = [u \in {} |-> None]
    /\ sent = <<>>
    /\ resp = NoResp
    /\ transporter = "none"
    /\ posted = None
    /\ saving = [p \in Procs |-> Idle]
    /\ before = store
    /\ logical = None /\ folded = None
    /\ input = None /\ ics = None

\* one step of the history: the call, the sequence and the effective method
\* of the event it returned, whether the caller passed a sequence
Link(op, event, explicit) ==
    [op |-> op, seq |-> event.sequence, method |-> OrTok(event.method, "REQUEST"),
     explicitSeq |-> explicit]

CreateEvent ==
    /\ cur = None
    /\ \E params \in CreateParams, g \in GenInputs :
         LET e == createCalendarEvent(params, config, g)
         IN  /\ cur' = Some(e)
             /\ chain' = <<Link("create", e, IsSome(params.sequence))>>
    /\ orig' = None /\ lastOp' = "create" /\ lastPatch' = None
    /\ UNCHANGED <<config, routeVars, storeVars, textVars>>

AdoptEvent ==
    /\ cur = None
    /\ \E e \in LiteralEvents :
         /\ cur' = Some(e)
         /\ chain' = <<Link("adopt", e, IsSome(e.sequence))>>
    /\ orig' = None /\ lastOp' = "adopt" /\ lastPatch' = None
    /\ UNCHANGED <<config, routeVars, storeVars, textVars>>

UpdateEvent ==
    /\ IsSome(cur)
    /\ Len(chain) < MaxChain
    /\ \E updates \in Patches :
         LET e == createUpdatedCalendarEvent(Val(cur), updates)
         IN  /\ cur' = Some(e)
             /\ lastPatch' = Some(updates)
             /\ chain' = Append(chain, Link("update", e, IsSome(updates.sequence)))
    /\ orig' = cur /\ lastOp' = "update"
    /\ UNCHANGED <<config, routeVars, storeVars, textVars>>

CancelEvent ==
    /\ IsSome(cur)
    /\ Len(chain) < MaxChain
    /\ LET e == createCancelledCalendarEvent(Val(cur), config)
       IN  /\ cur' = Some(e)
           /\ chain' = Append(chain, Link("cancel", e, FALSE))
    /\ orig' = cur /\ lastOp' = "cancel" /\ lastPatch' = None
    /\ UNCHANGED <<config, routeVars, storeVars, textVars>>

Next == CreateEvent \/ AdoptEvent \/ UpdateEvent \/ CancelEvent

Spec == Init /\ [][Next]_vars


-----------------------------------------------------------------------------
(* Claims about the lifecycle transitions and the serializer (Spec) *)

\* sequence of an event, an absent sequence counting as 0
SeqOf(e) == IF IsSome(e.sequence) THEN Val(e.sequence) ELSE 0

C2_OrganizerLineSameOnCancel ==
    lastOp = "cancel" =>
        \A g \in GenInputs :
            LET req == generateICalContent(Val(orig), config, g)
                can == generateICalContent(Val(cur), config, g)
            IN  (~req.threw /\ ~can.threw) => can.ORGANIZER = req.ORGANIZER

\* C3: every update or cancel returns the predecessor's sequence plus one, and
\* a history that starts with createCalendarEvent without a sequence is
\* numbered 0, 1, 2, 3, ... whatever the patches carry.
C3_SequenceChain ==
    /\ lastOp \in {"update", "cancel"} =>
          Val(cur).sequence = Some(SeqOf(Val(orig)) + 1)
    /\ (chain # <<>> /\ chain[1].op = "create" /\ ~chain[1].explicitSeq) =>
          \A i \in 1..Len(chain) : chain[i].seq = Some(i - 1)

C3_Witness ==
    /\ Len(chain) = 4
    /\ chain[1].op = "create" /\ ~chain[1].explicitSeq
    /\ chain[2].op = "update" /\ chain[2].explicitSeq
    /\ chain[3].op = "update"
    /\ chain[4].op = "cancel" /\ chain[4].seq = Some(3)

\* C4: in the history of one event every step but the last has method
\* REQUEST: no update or cancel produces a successor of a CANCEL event.
C4_CancelIsTerminal ==
    \A i \in 1..Len(chain) : i < Len(chain) => chain[i].method = "REQUEST"

\* C5: createUpdatedCalendarEvent(e, p).uid = e.uid, also when p carries a uid.
C5_UpdateKeepsUid ==
    lastOp = "update" => Val(cur).uid = Val(orig).uid

\* C6: a document rendered with METHOD:CANCEL carries STATUS:CANCELLED.
C6_CancelMethodHasCancelledStatus ==
    IsSome(cur) =>
        \A g \in GenInputs :
            LET doc == generateICalContent(Val(cur), config, g)
            IN  (~doc.threw /\ doc.METHOD = "CANCEL") => doc.STATUS = "CANCELLED"

\* /^[A-Za-z0-9-]+@[A-Za-z0-9.-]+$/.test(s)
MatchesUidPattern(s) ==
    \E k \in 2..(Len(s) - 1) :
        /\ s[k] = "@"
        /\ \A i \in 1..(k - 1) : s[i] \in AlphaNum \cup {"-"}
        /\ \A i \in (k + 1)..Len(s) : s[i] \in AlphaNum \cup {".", "-"}

\* C7: the uid of every event, and the UID rendered for an event without one,
\* contains exactly one '@' and matches the uid pattern.
C7_UidWellFormed ==
    IsSome(cur) =>
        /\ IsSome(Val(cur).uid) =>
              /\ CountChar(Val(Val(cur).uid), "@") = 1
              /\ MatchesUidPattern(Val(Val(cur).uid))
        /\ \A g \in GenInputs :
              LET doc == generateICalContent(Val(cur), config, g)
              IN  ~doc.threw =>
                    /\ CountChar(doc.UID, "@") = 1
                    /\ MatchesUidPattern(doc.UID)


\* C14: two renders of the same event, at any two times under the same
\* configuration, agree on UID, SEQUENCE, DTSTART, DTEND and ORGANIZER.
C14_RerenderKeepsIdentity ==
    IsSome(cur) =>
        \A g1, g2 \in GenInputs :
            LET d1 == generateICalContent(Val(cur), config, g1)
                d2 == generateICalContent(Val(cur), config, g2)
            IN  (~d1.threw /\ ~d2.threw) =>
                  /\ d1.UID = d2.UID
                  /\ d1.SEQUENCE = d2.SEQUENCE
                  /\ d1.DTSTART = d2.DTSTART
                  /\ d1.DTEND = d2.DTEND
                  /\ d1.ORGANIZER = d2.ORGANIZER


\* the instants in their order
TimeRank(t) == CASE t = T1 -> 1 [] t = T2 -> 2 [] t = T3 -> 3

\* C20: an event returned by createCalendarEvent, and every event derived
\* from it by update, has start before end (a call with end <= start returns
\* no event).
C20_StartBeforeEnd ==
    (chain # <<>> /\ chain[1].op = "create"
       /\ \A i \in 1..Len(chain) : chain[i].op \in {"create", "update"}) =>
        /\ IsSome(Val(cur).start) /\ IsSome(Val(cur).end)
        /\ TimeRank(ParseDate(Val(Val(cur).start)))
              < TimeRank(ParseDate(Val(Val(cur).end)))


\* C21: for every event returned by createCalendarEvent and by the updates
\* and cancels that follow it, generateICalContent does not throw and the
\* document has DTSTART and DTEND lines.
C21_RenderIsTotal ==
    (chain # <<>> /\ chain[1].op = "create") =>
        \A g \in GenInputs :
            LET doc == generateICalContent(Val(cur), config, g)
            IN  ~doc.threw /\ IsSome(doc.DTSTART) /\ IsSome(doc.DTEND)


-----------------------------------------------------------------------------
(* lib/calendar-store.ts: the store is the object kept in                   *)
(* data/calendar-store.json, a function from the uids written so far        *)

getInviteMeta(st, uid) == IF uid \in DOMAIN st THEN Some(st[uid]) ELSE None

saveInviteMeta(st, meta) ==
    [u \in (DOMAIN st) \cup {meta.uid} |-> IF u = meta.uid THEN meta ELSE st[u]]

-----------------------------------------------------------------------------
(* app/api/cancel-meeting/route.ts *)

\* outcomes of transporter.verify() and transporter.sendMail()
SmtpOutcomes == {"ok", "verifyFails", "sendFails"}

\* snapshots extractMetaFromICS can return for the file at fallbackEmlPath:
\* the ICS of an earlier REQUEST (basic dates), or a foreign ICS whose
\* DTSTART/DTEND text is in the extended ISO form
OrgLineBoss == STR_ORGANIZER_CN \o NameAl \o STR_MAILTO \o AddrBoss
EmlMetas ==
    { [uid |-> Uid1, dtstart |-> BasicStr(T1), dtend |-> BasicStr(T2),
       sequence |-> 0, organizerLine |-> OrgLineBoss],
      [uid |-> Uid1, dtstart |-> IsoStr(T1), dtend |-> IsoStr(T2),
       sequence |-> 0, organizerLine |-> OrgLineBoss],
      [uid |-> Uid2, dtstart |-> IsoStr(T1), dtend |-> IsoStr(T2),
       sequence |-> 1, organizerLine |-> OrgLineBoss] }

\* request bodies of POST /api/cancel-meeting; uid stands for
\* originalUid || uid, fields for "summary and an attendees array are given",
\* eml for the snapshot read from fallbackEmlPath (None: no path, unreadable
\* file, or no ICS in it)
BodyTimes ==
    { [start |-> None, end |-> None],
      [start |-> Some(BasicStr(T1)), end |-> Some(BasicStr(T2))],
      [start |-> Some(IsoStr(T1)), end |-> Some(IsoStr(T2))] }
BodyOrigins ==
    { [organizer |-> None, sequence |-> None],
      [organizer |-> Some([name |-> Some(NameAl), email |-> Some(AddrBoss)]),
       sequence |-> Some(1)] }
CancelBodies ==
    { [uid |-> None, fields |-> TRUE, start |-> None, end |-> None,
       organizer |-> None, sequence |-> None, eml |-> None] }
    \cup
    { [uid |-> Some(Uid1), fields |-> f, start |-> t.start, end |-> t.end,
       organizer |-> o.organizer, sequence |-> o.sequence, eml |-> e] :
        f \in BOOLEAN, t \in BodyTimes, o \in BodyOrigins,
        e \in {None} \cup {Some(m) : m \in EmlMetas} }

\* route.ts:76-93, the snapshot found through fallbackEmlPath
EmlFallback(stored, body) == IF ~IsSome(stored) THEN body.eml ELSE None

\* variant: any two date strings are accepted, whatever their form
hasBasicDates_AnyForm(body) ==
    IsSome(body.start) /\ IsSome(body.end)

\* route.ts:97, both dates are strings in the basic form
hasBasicDates(body) ==
    /\ IsSome(body.start) /\ IsSome(body.end)
    /\ isBasicDateTime(Val(body.start)) /\ isBasicDateTime(Val(body.end))

\* route.ts:96-107, the snapshot built from the request body
BodyFallback(stored, body, cfg) ==
    IF IsSome(stored) \/ ~hasBasicDates(body) THEN None
    ELSE
      LET orgEmail == IF IsSome(body.organizer) /\ TruthyStr(Val(body.organizer).email)
                      THEN Val(Val(body.organizer).email)
                      ELSE OrStr(cfg.SMTP_FROM_EMAIL, DEFAULT_FROM_EMAIL)
          orgName == IF IsSome(body.organizer) /\ TruthyStr(Val(body.organizer).name)
                     THEN Val(Val(body.organizer).name)
                     ELSE OrStr(cfg.SMTP_FROM_NAME, DEFAULT_FROM_NAME)
      IN  Some([uid |-> Val(body.uid), dtstart |-> Val(body.start),
                dtend |-> Val(body.end),
                sequence |-> IF IsSome(body.sequence) THEN Val(body.sequence) ELSE 0,
                organizerLine |-> STR_ORGANIZER_CN \o orgName \o STR_MAILTO \o orgEmail])

\* route.ts:126-145, the event rebuilt from the snapshot
OriginalEventOf(stored, cfg) ==
    [uid |-> Some(stored.uid),
     start |-> Some(stored.dtstart),
     end |-> Some(stored.dtend),
     organizer |-> Some([name |-> Some(OrStr(cfg.SMTP_FROM_NAME, DEFAULT_FROM_NAME)),
                         email |-> Some(OrStr(cfg.SMTP_FROM_EMAIL, DEFAULT_FROM_EMAIL))]),
     sequence |-> Some(OrNum(Some(stored.sequence), 0)),
     method |-> Some("REQUEST"),
     status |-> Some("CONFIRMED")]

\* what the request found: the store hit, the EML snapshot, the body's dates
Found(body, st) ==
    [hit |-> IsSome(body.uid) /\ IsSome(getInviteMeta(st, Val(body.uid))),
     eml |-> IsSome(body.eml),
     basic |-> /\ IsSome(body.start) /\ IsSome(body.end)
               /\ Val(body.start).fmt = "basic" /\ Val(body.end).fmt = "basic"]

Response(route, status, uid, mailed, found, snap) ==
    [route |-> route, status |-> status, uid |-> uid, mailed |-> mailed,
     found |-> found, snap |-> snap]

\* route.ts:126-154, the document rendered for the snapshot; the rebuilt
\* event has a uid, so generateEventUID is not called
CancelDocument(stored, cfg) ==
    LET originalEvent == OriginalEventOf(stored, cfg)
        cancelledEvent == createCancelledCalendarEvent(originalEvent, cfg)
    IN  generateICalContent(cancelledEvent, cfg, CHOOSE g \in GenInputs : TRUE)

\* POST /api/cancel-meeting, the whole handler
CancelMeeting(body, smtp) ==
    IF ~TruthyStr(body.uid)
    THEN /\ resp' = Response("cancel-meeting", 400, None, FALSE, Found(body, store), None)
         /\ transporter' = "none"
         /\ posted' = None
         /\ UNCHANGED <<store, sent>>
    ELSE
      LET effectiveUid == Val(body.uid)
          stored0 == getInviteMeta(store, effectiveUid)
          emlMeta == EmlFallback(stored0, body)
          store1 == IF IsSome(emlMeta) THEN saveInviteMeta(store, Val(emlMeta)) ELSE store
          stored1 == IF IsSome(emlMeta) THEN emlMeta ELSE stored0
          bodyMeta == BodyFallback(stored1, body, config)
          store2 == IF IsSome(bodyMeta) THEN saveInviteMeta(store1, Val(bodyMeta)) ELSE store1
          stored == IF IsSome(bodyMeta) THEN bodyMeta ELSE stored1
          R(status, mailed) ==
              Response("cancel-meeting", status, body.uid, mailed, Found(body, store),
                       stored)
      IN  /\ store' = store2
          /\ posted' = None
          /\ IF ~IsSome(stored)
             THEN /\ resp' = R(404, FALSE) /\ transporter' = "none"
                  /\ UNCHANGED sent
             ELSE IF ~body.fields
             THEN /\ resp' = R(400, FALSE) /\ transporter' = "none"
                  /\ UNCHANGED sent
             ELSE
               LET doc == CancelDocument(Val(stored), config)
               IN  \* the finally block closes the transporter once it is set
                   /\ transporter' = IF doc.threw THEN "none" ELSE "closed"
                   /\ IF doc.threw \/ smtp # "ok"
                      THEN /\ resp' = R(500, FALSE) /\ UNCHANGED sent
                      ELSE /\ resp' = R(200, TRUE)
                           /\ sent' = Append(sent, [via |-> "cancel-meeting",
                                                    doc |-> doc])


-----------------------------------------------------------------------------
(* app/api/send-email/route.ts *)

\* request bodies of POST /api/send-email: schemaOk stands for "safeParse
\* accepts the request", cal for calendarEvent
CalendarRequests ==
    [uid : {Some(Uid1)},
     method : {None, Some("CANCEL")},
     status : {None},
     sequence : {None, Some(MaxSeq)},
     start : {None, Some(BasicStr(T1))},
     end : {None}]

\* a calendarEvent that names only its uid
PlainInvite ==
    CHOOSE ce \in CalendarRequests :
        ce.method = None /\ ce.sequence = None /\ ce.start = None

\* a request the schema rejects, one with a required recipient outside the
\* allowed domain, requests with a Cc recipient outside it, and requests
\* whose recipients are all inside
SendRequests ==
    { [schemaOk |-> FALSE, to |-> <<AddrAki>>, cc |-> <<>>, cal |-> None] }
    \cup { [schemaOk |-> TRUE, to |-> <<AddrAki, AddrBoss>>, cc |-> <<>>,
            cal |-> Some(PlainInvite)] }
    \cup { [schemaOk |-> TRUE, to |-> <<AddrAki>>, cc |-> <<AddrBoss>>, cal |-> cal] :
              cal \in {None, Some(PlainInvite)} }
    \cup { [schemaOk |-> TRUE, to |-> <<AddrAki>>, cc |-> <<>>, cal |-> cal] :
              cal \in {None} \cup { Some(ce) : ce \in CalendarRequests } }

\* the recipient is in the allowed domain
validateEmailDomain(email) == EndsWith(email, ALLOWED_DOMAIN)

\* the list without its empty entries
cleanEmailListNoValidation(list) == SelectSeq(list, LAMBDA e : e # <<>>)

\* route.ts:170-173, to and cc of mailOptions
MailRecipients(req) ==
    { req.to[i] : i \in 1..Len(req.to) }
    \cup LET cleanCC == cleanEmailListNoValidation(req.cc)
         IN  { cleanCC[i] : i \in 1..Len(cleanCC) }

\* route.ts:182-198, the event built from calendarEvent
RouteEvent(ce, cfg, g) ==
    createCalendarEvent(
        [uid |-> Some(OrStr(ce.uid, g.ts \o <<"-">> \o g.rnd \o <<"@">>
                                    \o OrStr(cfg.SMTP_FROM_EMAIL, DEFAULT_UID_DOMAIN))),
         start |-> IF IsSome(ce.start) THEN ce.start ELSE Some(IsoStr(g.now)),
         end |-> IF IsSome(ce.end) THEN ce.end ELSE Some(IsoStr(AddHour(g.now))),
         organizerName |-> Some(OrStr(cfg.SMTP_FROM_NAME, DEFAULT_FROM_NAME)),
         organizerEmail |-> Some(OrStr(cfg.SMTP_FROM_EMAIL, DEFAULT_FROM_EMAIL)),
         method |-> Some(OrTok(ce.method, "REQUEST")),
         status |-> Some(OrTok(ce.status, "CONFIRMED")),
         sequence |-> Some(OrNum(ce.sequence, 0))],
        cfg, g)

\* POST /api/send-email, the whole handler
SendEmail(req, smtp, g) ==
    LET R(status, uid, mailed) ==
            Response("send-email", status, uid, mailed, NoFound, None)
    IN  /\ UNCHANGED store
        /\ posted' = Some([to |-> req.to, cc |-> req.cc, invite |-> IsSome(req.cal)])
        /\ transporter' =
               IF ~req.schemaOk \/ \E i \in 1..Len(req.to) : ~validateEmailDomain(req.to[i])
               THEN "none" ELSE "closed"
        /\ IF ~req.schemaOk
           THEN /\ resp' = R(400, None, FALSE) /\ UNCHANGED sent
           ELSE IF \E i \in 1..Len(req.to) : ~validateEmailDomain(req.to[i])
           THEN /\ resp' = R(400, None, FALSE) /\ UNCHANGED sent
           ELSE IF smtp = "verifyFails"
           THEN /\ resp' = R(500, None, FALSE) /\ UNCHANGED sent
           ELSE IF ~IsSome(req.cal)
           THEN /\ resp' = R(IF smtp = "ok" THEN 200 ELSE 500, None, FALSE)
                /\ UNCHANGED sent
           ELSE
             LET event == RouteEvent(Val(req.cal), config, g)
                 doc == generateICalContent(event, config, g)
             IN  IF doc.threw \/ smtp # "ok"
                 THEN /\ resp' = R(500, None, FALSE) /\ UNCHANGED sent
                 ELSE /\ resp' = R(200, Some(doc.UID), TRUE)
                      /\ sent' = Append(sent, [via |-> "send-email", doc |-> doc])

\* GET /api/send-email, the whole handler: the transporter is a local of the
\* try block and no path closes it
VerifySmtp(smtp) ==
    /\ resp' = Response("send-email-status", IF smtp = "ok" THEN 200 ELSE 500,
                        None, FALSE, NoFound, None)
    /\ transporter' = "open"
    /\ posted' = None
    /\ UNCHANGED <<store, sent>>

-----------------------------------------------------------------------------
(* State machine of the route handlers over the store *)

PostSendEmail ==
    /\ Len(sent) < MaxSent
    /\ \E req \in SendRequests, smtp \in SmtpOutcomes, g \in GenInputs :
         SendEmail(req, smtp, g)
    /\ UNCHANGED <<config, libVars, storeVars, textVars>>

PostCancelMeeting ==
    /\ Len(sent) < MaxSent
    /\ \E body \in CancelBodies, smtp \in SmtpOutcomes :
         CancelMeeting(body, smtp)
    /\ UNCHANGED <<config, libVars, storeVars, textVars>>

GetSendEmail ==
    /\ \E smtp \in {"ok", "verifyFails"} : VerifySmtp(smtp)
    /\ UNCHANGED <<config, libVars, storeVars, textVars>>

RouteNext == PostSendEmail \/ PostCancelMeeting \/ GetSendEmail

\* the routes are run under two configurations: nothing set, sender set
RouteConfigs ==
    { c \in Configs : (c.SMTP_FROM_EMAIL = None) = (c.SMTP_FROM_NAME = None)
                       /\ (c.FROM_EMAIL = c.SMTP_FROM_EMAIL) }

RouteInit == Init /\ config \in RouteConfigs

RouteSpec == RouteInit /\ [][RouteNext]_vars

-----------------------------------------------------------------------------
(* Claims about the routes and the store (RouteSpec) *)

\* the last message handed to sendMail
LastSent == sent[Len(sent)]

\* a REQUEST for uid u was mailed before
RequestMailedFor(u) ==
    \E i \in 1..Len(sent) :
        sent[i].doc.METHOD = "REQUEST" /\ Some(sent[i].doc.UID) = u

\* the address is inside the allowed internal domain
InAllowedDomain(email) == EndsWith(email, ALLOWED_DOMAIN)

\* C25: the send-email route never mails a calendar invite to a recipient
\* outside the allowed domain, on To or on Cc, and a request with such a
\* recipient sends no mail.
C25_InviteOnlyToInternal ==
    (resp.route = "send-email" /\ IsSome(posted) /\ Val(posted).invite) =>
        LET req == Val(posted)
            asked == { req.to[i] : i \in 1..Len(req.to) }
                     \cup { req.cc[i] : i \in 1..Len(req.cc) }
        IN  /\ resp.mailed =>
                  \A e \in MailRecipients(req) : InAllowedDomain(e)
            /\ (\E e \in asked : ~InAllowedDomain(e)) =>
                  (resp.status # 200 /\ ~resp.mailed)

\* C26: a cancel-meeting request that ends with an error response leaves the
\* store as it was.
C26_FailedCancelKeepsStore ==
    [][ (resp'.route = "cancel-meeting" /\ resp'.status # 200) =>
            store' = store ]_vars

\* C29: the transporter a handler created is closed when the handler
\* returns.
C29_TransporterClosedOnReturn ==
    transporter # "open"

\* C8 (as stated): the cancel route mails a CANCEL for u only if the store
\* held a snapshot for u that an earlier REQUEST for u put there; a request
\* naming u without such a snapshot ends 404 and mails nothing, whatever its
\* body supplies.
C8_CancelOnlyFromRequestSnapshot ==
    (resp.route = "cancel-meeting" /\ resp.uid # None) =>
        LET backed == resp.found.hit /\ RequestMailedFor(resp.uid)
        IN  /\ resp.mailed => backed
            /\ ~backed => (resp.status = 404 /\ ~resp.mailed)

\* C8 (amended): the cancel route mails a CANCEL only if a snapshot was at
\* hand: in the store under u, or read from the EML file of the request, or
\* built from basic-form start and end of the body; a request naming u ends
\* 404 exactly when none of the three is at hand, and then mails nothing and
\* leaves the store without an entry for u.
C8_CancelOnlyFromSnapshot ==
    resp.route = "cancel-meeting" =>
        LET f == resp.found
            atHand == f.hit \/ f.eml \/ f.basic
        IN  /\ resp.mailed => (atHand /\ resp.status = 200
                                /\ LastSent.via = "cancel-meeting"
                                /\ LastSent.doc.METHOD = "CANCEL")
            /\ resp.uid # None => ((resp.status = 404) <=> ~atHand)
            /\ resp.status = 404 =>
                  (~resp.mailed /\ Val(resp.uid) \notin DOMAIN store)
            /\ resp.uid = None => (resp.status = 400 /\ ~resp.mailed)

\* a CANCEL mailed from the snapshot of an EML file, the store having none
C8_Witness ==
    /\ resp.route = "cancel-meeting" /\ resp.mailed
    /\ ~resp.found.hit /\ resp.found.eml
    /\ ~RequestMailedFor(resp.uid)
    /\ LastSent.doc.METHOD = "CANCEL"

\* C9: after a send-email request that mailed a REQUEST for u, getInviteMeta(u)
\* returns a snapshot whose uid, dtstart, dtend, sequence and organizerLine
\* are those of that REQUEST.
C9_RequestIsPersisted ==
    (resp.route = "send-email" /\ resp.mailed /\ LastSent.doc.METHOD = "REQUEST") =>
        LET doc == LastSent.doc
            meta == getInviteMeta(store, doc.UID)
        IN  /\ IsSome(meta)
            /\ Val(meta).uid = doc.UID
            /\ Some(Val(meta).dtstart) = doc.DTSTART
            /\ Some(Val(meta).dtend) = doc.DTEND
            /\ Val(meta).sequence = doc.SEQUENCE
            /\ Val(meta).organizerLine = doc.ORGANIZER

\* C10: a CANCEL mailed by the cancel route for u carries a SEQUENCE one above
\* the highest SEQUENCE of the messages mailed for u before it.
C10_CancelSequenceAboveEarlier ==
    \A i \in 1..Len(sent) :
        (sent[i].via = "cancel-meeting" /\ sent[i].doc.METHOD = "CANCEL") =>
            LET earlier == { j \in 1..(i - 1) : sent[j].doc.UID = sent[i].doc.UID }
            IN  earlier # {} =>
                  /\ \A j \in earlier : sent[j].doc.SEQUENCE < sent[i].doc.SEQUENCE
                  /\ \E j \in earlier :
                        sent[i].doc.SEQUENCE = sent[j].doc.SEQUENCE + 1

\* the cancel route went on to render a CANCEL from the snapshot resp.snap
RenderedFromSnapshot ==
    /\ resp.route = "cancel-meeting" /\ IsSome(resp.snap)
    /\ resp.status \in {200, 500}

\* C11: when the cancel route renders a CANCEL from a snapshot whose dtstart
\* and dtend are in the basic form, the render completes and its DTSTART and
\* DTEND are the stored dtstart and dtend.
C11_BasicDatesRenderVerbatim ==
    (/\ RenderedFromSnapshot
     /\ isBasicDateTime(Val(resp.snap).dtstart)
     /\ isBasicDateTime(Val(resp.snap).dtend)) =>
        LET doc == CancelDocument(Val(resp.snap), config)
        IN  /\ ~doc.threw
            /\ doc.DTSTART = Some(Val(resp.snap).dtstart)
            /\ doc.DTEND = Some(Val(resp.snap).dtend)

\* C12: the ORGANIZER line of a CANCEL mailed by the cancel route is the
\* organizerLine of the snapshot it was built from.
C12_OrganizerLineVerbatim ==
    (resp.route = "cancel-meeting" /\ resp.mailed) =>
        LastSent.doc.ORGANIZER = Val(resp.snap).organizerLine

\* C13: a CANCEL mailed by the cancel route carries the uid the request named.
C13_CancelUidIsRequestedUid ==
    (resp.route = "cancel-meeting" /\ resp.mailed) =>
        Some(LastSent.doc.UID) = resp.uid

-----------------------------------------------------------------------------
(* foldLine applied to logical lines (FoldSpec) *)

\* a character outside ASCII, one UTF-16 unit in a JavaScript string and two
\* octets in UTF-8 (U+00E9)
E_ACUTE == "e-acute"
UTF8Len(c) == IF c = E_ACUTE THEN 2 ELSE 1

\* 'x'.repeat(n)
Fill(n) == [i \in 1..n |-> "x"]

\* logical lines without CR or LF: a run of x, a word, a run of x; the word
\* starts up to MaxShift characters before the fold column and the tail makes
\* up to MaxFolds further physical lines
MaxShift == 8
MaxFolds == 2
FoldWords == { <<>>, <<"m","a","i","l","t","o",":">>, <<"\\",";">>, <<" ", "a">>, <<E_ACUTE, E_ACUTE>> }
FoldLines ==
    { Fill(n) \o w \o Fill(k) :
        n \in {0} \cup { FOLD_AT - d : d \in 0..MaxShift },
        w \in FoldWords,
        k \in { j * FOLD_AT : j \in 0..MaxFolds } }

TakeLine ==
    /\ \E l \in FoldLines : logical' = Some(l)
    /\ folded' = None
    /\ UNCHANGED <<config, libVars, routeVars, storeVars, input, ics>>

FoldTaken ==
    /\ IsSome(logical) /\ folded = None
    /\ folded' = Some(foldLine(Val(logical)))
    /\ UNCHANGED <<config, libVars, routeVars, storeVars, logical, input, ics>>

FoldNext == TakeLine \/ FoldTaken

FoldSpec == Init /\ [][FoldNext]_vars

STR_FOLD == <<"\r", "\n", " ">>

\* unfolding: every CRLF followed by one space is removed
Unfold(s) ==
    LET inFold == [ i \in 1..Len(s) |->
                      \E k \in 0..2 :
                          /\ i - k >= 1 /\ i - k + 2 <= Len(s)
                          /\ SubSeq(s, i - k, i - k + 2) = STR_FOLD ]
        kept == SelectSeq([ i \in 1..Len(s) |-> <<i, s[i]>> ],
                          LAMBDA p : ~inFold[p[1]])
    IN  [ j \in 1..Len(kept) |-> kept[j][2] ]

\* C16: unfolding foldLine(L) gives back L, and foldLine(L) = L when L is at
\* most 75 long.
C16_UnfoldGivesBackLine ==
    IsSome(folded) =>
        /\ Unfold(Val(folded)) = Val(logical)
        /\ Len(Val(logical)) <= FOLD_AT => Val(folded) = Val(logical)

\* a line folded twice
C16_Witness ==
    /\ IsSome(folded)
    /\ Len(Val(logical)) > 2 * FOLD_AT
    /\ CountChar(Val(folded), "\n") = 2
    /\ Val(folded) # Val(logical)

\* ceil(a / b) for a >= 0, b > 0
CeilDiv(a, b) == (a + b - 1) \div b

\* C30: every pass of the loop of foldLine leaves a strictly shorter
\* remaining text, and a line of n > 75 characters is folded into
\* 1 + ceil((n - 75) / 74) physical lines (one line when n <= 75).
C30_FoldTerminatesWithLineCount ==
    IsSome(folded) =>
        LET n == Len(Val(logical))
            physical == CountChar(Val(folded), "\n") + 1
        IN  /\ \A r \in Remainders(Val(logical)) :
                  Len(r) > FOLD_AT => Len(FoldStep(r)) < Len(r)
            /\ n <= FOLD_AT => physical = 1
            /\ n > FOLD_AT =>
                  physical = 1 + CeilDiv(n - FOLD_AT, FOLD_AT - 1)

\* a line of 149 characters: after the first cut the remaining text, with its
\* space, is exactly 75 long and is not cut again
C30_Witness ==
    /\ IsSome(folded)
    /\ Len(Val(logical)) = 2 * FOLD_AT - 1
    /\ CountChar(Val(folded), "\n") = 1
    /\ Cardinality(Remainders(Val(logical))) = 2

-----------------------------------------------------------------------------
(* lib/calendar.ts: the text generateICalContent returns.  An event handed *)
(* to the serializer has, besides the fields above, summary, description,  *)
(* location (optional strings) and attendees (optional sequence of         *)
(* [name, email, role, status]).                                           *)

\* text of the enum members
TokChars(tok) ==
    CASE tok = "REQUEST" -> <<"R","E","Q","U","E","S","T">>
      [] tok = "CANCEL" -> <<"C","A","N","C","E","L">>
      [] tok = "CONFIRMED" -> <<"C","O","N","F","I","R","M","E","D">>
      [] tok = "TENTATIVE" -> <<"T","E","N","T","A","T","I","V","E">>
      [] tok = "CANCELLED" -> <<"C","A","N","C","E","L","L","E","D">>
      [] tok = "REQ-PARTICIPANT" -> <<"R","E","Q","-","P","A","R","T","I","C","I","P","A","N","T">>
      [] tok = "OPT-PARTICIPANT" -> <<"O","P","T","-","P","A","R","T","I","C","I","P","A","N","T">>
      [] tok = "NEEDS-ACTION" -> <<"N","E","E","D","S","-","A","C","T","I","O","N">>
      [] tok = "ACCEPTED" -> <<"A","C","C","E","P","T","E","D">>

\* `${sequence}` for a non-negative integer
DigitSeq == <<"0","1","2","3","4","5","6","7","8","9">>
RECURSIVE NumChars(_)
NumChars(n) ==
    IF n < 10 THEN <<DigitSeq[n + 1]>>
    ELSE NumChars(n \div 10) \o <<DigitSeq[(n % 10) + 1]>>

\* toISOString().replace(/[-:]/g, '').split('.')[0] + 'Z' of an instant
DateChars(t) ==
    CASE t = T1 -> <<"2","0","2","5","0","1","2","0","T","1","0","0","0","0","0","Z">>
      [] t = T2 -> <<"2","0","2","5","0","1","2","0","T","1","1","0","0","0","0","Z">>
      [] t = T3 -> <<"2","0","2","5","0","1","2","0","T","1","2","0","0","0","0","Z">>

\* lines.join('\r\n')
RECURSIVE JoinCRLF(_)
JoinCRLF(lines) ==
    IF lines = <<>> THEN <<>>
    ELSE IF Len(lines) = 1 THEN lines[1]
    ELSE lines[1] \o <<"\r", "\n">> \o JoinCRLF(Tail(lines))

LowerSeq == <<"a","b","c","d","e","f","g","h","i","j","k","l","m","n","o","p","q","r","s","t","u","v","w","x","y","z">>
UpperSeq == <<"A","B","C","D","E","F","G","H","I","J","K","L","M","N","O","P","Q","R","S","T","U","V","W","X","Y","Z">>
\* l.toUpperCase() of one character
ToUpper(c) ==
    IF c \in LowerCase
    THEN UpperSeq[CHOOSE i \in 1..26 : LowerSeq[i] = c]
    ELSE c

\* email.split('@')[0]
LocalPart(email) ==
    IF \E i \in 1..Len(email) : email[i] = "@"
    THEN LET k == CHOOSE i \in 1..Len(email) :
                    email[i] = "@" /\ \A j \in 1..(i - 1) : email[j] # "@"
         IN  SubSeq(email, 1, k - 1)
    ELSE email

\* .replace(/\b\w/g, l => l.toUpperCase())
CapitalizeWords(str) ==
    LET IsWord(c) == c \in AlphaNum \cup {"_"}
    IN  [ i \in 1..Len(str) |->
            IF IsWord(str[i]) /\ (i = 1 \/ ~IsWord(str[i - 1]))
            THEN ToUpper(str[i]) ELSE str[i] ]

\* name generated from the email when the attendee has none
NameFromEmail(email) ==
    CapitalizeWords(ReplaceAll(ReplaceAll(LocalPart(email), ".", <<" ">>),
                               "_", <<" ">>))

formatAttendee(attendee) ==
    LET email == Val(attendee.email)
        cn == IF TruthyStr(attendee.name)
              THEN <<"C","N","=">> \o escapeICalText(Val(attendee.name))
              ELSE <<"C","N","=">> \o escapeICalText(NameFromEmail(email))
        role == IF IsSome(attendee.role)
                THEN <<";","R","O","L","E","=">> \o TokChars(Val(attendee.role)) ELSE <<>>
        partstat == IF IsSome(attendee.status)
                    THEN <<";","P","A","R","T","S","T","A","T","=">> \o TokChars(Val(attendee.status)) ELSE <<>>
    IN  <<"A","T","T","E","N","D","E","E",";">> \o cn \o role \o <<";","R","S","V","P","=","T","R","U","E">> \o partstat
        \o <<";","m","a","i","l","t","o",":">> \o email

\* the ATTENDEE lines of generateICalContent
AttendeeLines(event, cfg) ==
    IF IsSome(event.attendees) /\ Len(Val(event.attendees)) > 0
    THEN LET withEmail == SelectSeq(Val(event.attendees),
                                    LAMBDA a : TruthyStr(a.email))
         IN  [ i \in 1..Len(withEmail) |-> foldLine(formatAttendee(withEmail[i])) ]
    ELSE LET fromEmail == OrStr(cfg.SMTP_FROM_EMAIL, DEFAULT_FROM_EMAIL)
             fromName == OrStr(cfg.SMTP_FROM_NAME, DEFAULT_FROM_NAME)
         IN  << foldLine(<<"A","T","T","E","N","D","E","E",";","C","N","=">> \o escapeICalText(fromName)
                         \o <<";","R","O","L","E","=","R","E","Q","-","P","A","R","T","I","C","I","P","A","N","T",";","R","S","V","P","=","T","R","U","E",":","m","a","i","l","t","o",":">>
                         \o fromEmail) >>

\* the lines pushed by generateICalContent, in order
ICalLines(event, cfg, g) ==
    LET doc == generateICalContent(event, cfg, g)
        isCancel == event.method = Some("CANCEL")
        summary == OrStr(event.summary, <<"M","e","e","t","i","n","g">>)
        displaySummary == IF isCancel THEN summary \o <<" ","(","C","a","n","c","e","l","l","e","d",")">> ELSE summary
        description ==
            IF isCancel
            THEN <<"T","h","i","s"," ","m","e","e","t","i","n","g"," ","h","a","s"," ","b","e","e","n"," ","c","a","n","c","e","l","l","e","d",".">> \o <<"\n", "\n">>
                 \o Val(event.description)
            ELSE Val(event.description)
    IN  << <<"B","E","G","I","N",":","V","C","A","L","E","N","D","A","R">>, <<"V","E","R","S","I","O","N",":","2",".","0">>,
           <<"P","R","O","D","I","D",":","-","/","/","D","E","D","E","_","S","Y","S","T","E","M","/","/","E","m","a","i","l"," ","C","a","l","e","n","d","a","r","/","/","E","N">>,
           <<"C","A","L","S","C","A","L","E",":","G","R","E","G","O","R","I","A","N">>,
           <<"M","E","T","H","O","D",":">> \o TokChars(doc.METHOD),
           <<"B","E","G","I","N",":","V","E","V","E","N","T">>,
           <<"U","I","D",":">> \o doc.UID,
           <<"S","E","Q","U","E","N","C","E",":">> \o NumChars(doc.SEQUENCE),
           <<"D","T","S","T","A","M","P",":">> \o DateChars(g.now) >>
        \o (IF IsSome(doc.DTSTART)
            THEN << <<"D","T","S","T","A","R","T",":">> \o DateChars(Val(doc.DTSTART).t),
                    <<"D","T","E","N","D",":">> \o DateChars(Val(doc.DTEND).t) >>
            ELSE <<>>)
        \o << foldLine(<<"S","U","M","M","A","R","Y",":">> \o escapeICalText(displaySummary)) >>
        \o (IF TruthyStr(event.description)
            THEN << foldLine(<<"D","E","S","C","R","I","P","T","I","O","N",":">> \o escapeICalText(description)) >>
            ELSE <<>>)
        \o (IF TruthyStr(event.location)
            THEN << foldLine(<<"L","O","C","A","T","I","O","N",":">> \o escapeICalText(Val(event.location))) >>
            ELSE <<>>)
        \o << doc.ORGANIZER >>
        \o AttendeeLines(event, cfg)
        \o << <<"S","T","A","T","U","S",":">> \o TokChars(doc.STATUS),
               <<"E","N","D",":","V","E","V","E","N","T">>, <<"E","N","D",":","V","C","A","L","E","N","D","A","R">> >>

\* generateICalContent as text: threw, or the lines joined with CRLF
generateICalText(event, cfg, g) ==
    IF RenderThrows(event) THEN [threw |-> TRUE, text |-> <<>>]
    ELSE [threw |-> FALSE, text |-> JoinCRLF(ICalLines(event, cfg, g))]

-----------------------------------------------------------------------------
(* generateICalContent applied to events (RenderSpec) *)

Attendee(name, email) ==
    [name |-> name, email |-> Some(email),
     role |-> Some("REQ-PARTICIPANT"), status |-> Some("NEEDS-ACTION")]

\* what createCalendarEvent builds for a ccAttendeeEmails entry
CcAttendee(name, email) ==
    [name |-> name, email |-> Some(email),
     role |-> Some("OPT-PARTICIPANT"), status |-> Some("NEEDS-ACTION")]

AddrAnn == <<"a","n","n",".","l","e","e","@","x",".","j","p">>

BaseEvent ==
    [uid |-> Some(Uid1), start |-> Some(IsoStr(T1)), end |-> Some(IsoStr(T2)),
     organizer |-> Some([name |-> Some(NameAl), email |-> Some(AddrBoss)]),
     sequence |-> Some(0), method |-> Some("REQUEST"), status |-> Some("CONFIRMED"),
     summary |-> Some(<<"S","y","n","c">>), description |-> None, location |-> None,
     attendees |-> Some(<<Attendee(None, AddrAnn)>>)]

\* characters placed at the end of a text: separators that are escaped, a
\* line feed, a carriage return, a backslash, a non-ASCII character
TextWords == { <<";">>, <<",">>, <<"\n">>, <<"\r">>, <<"\\">>, <<E_ACUTE>>, <<"z">> }

\* lengths of the run of x that bring the character after a prefix of
\* length p to the fold column or up to MaxShift characters before it
Pads(p) == { FOLD_AT - p - d : d \in 0..MaxShift }

\* events handed to generateICalContent: the base event with one property
\* replaced
RenderInputs ==
    { BaseEvent }
    \cup { [BaseEvent EXCEPT !.summary = Some(Fill(n) \o w)] :
              n \in Pads(Len(<<"S","U","M","M","A","R","Y",":">>)), w \in TextWords }
    \cup { [BaseEvent EXCEPT !.organizer =
                Some([name |-> Some(Fill(n)), email |-> Some(AddrBoss)])] :
              n \in Pads(Len(STR_ORGANIZER_CN)) }
    \cup { [BaseEvent EXCEPT !.attendees =
                Some(<<Attendee(Some(Fill(n)), AddrAnn)>>)] :
              n \in Pads(Len(<<"A","T","T","E","N","D","E","E",";","C","N","=",";","R","O","L","E","=","R","E","Q","-","P","A","R","T","I","C","I","P","A","N","T",";","R","S","V","P","=","T","R","U","E",";","P","A","R","T","S","T","A","T","=","N","E","E","D","S","-","A","C","T","I","O","N",";">>)) }
    \cup { [BaseEvent EXCEPT !.uid = Some(u)] :
              u \in { <<"m", "\n", "1">>, <<"m", "\r", "1">>, <<"m",";","1">>,
                      <<"m">> \o <<"\r", "\n">> \o <<"U","I","D",":","2">> } }
    \cup { [BaseEvent EXCEPT !.method = Some("CANCEL"), !.status = Some("CANCELLED"),
                             !.sequence = Some(MaxSeq),
                             !.description = d, !.location = l] :
              d \in {None, Some(<<"Q","1",","," ","p","l","a","n">>)}, l \in {None, Some(<<"R","o","o","m"," ","2">>)} }
    \cup { [BaseEvent EXCEPT !.attendees = a] :
              a \in { None, Some(<<>>),
                      Some(<<Attendee(Some(<<"B","o">>), AddrOps), Attendee(None, AddrAnn)>>),
                      Some(<<Attendee(None, AddrAnn), CcAttendee(Some(<<"B","o">>), AddrOps)>>),
                      Some(<<[Attendee(Some(<<"B","o">>), <<>>) EXCEPT !.email = None]>>),
                      Some(<<Attendee(Some(<<"B","o">>), <<>>), Attendee(None, <<>>)>>) } }
    \cup { [BaseEvent EXCEPT !.uid = None, !.start = None, !.end = None,
                             !.organizer = None, !.summary = None],
           [BaseEvent EXCEPT !.start = Some(BasicStr(T1)), !.end = Some(BasicStr(T2))] }

TakeEvent ==
    /\ \E e \in RenderInputs : input' = Some(e)
    /\ ics' = None
    /\ UNCHANGED <<config, libVars, routeVars, storeVars, logical, folded>>

RenderTaken ==
    /\ IsSome(input) /\ ics = None
    /\ \E g \in GenInputs : ics' = Some(generateICalText(Val(input), config, g))
    /\ UNCHANGED <<config, libVars, routeVars, storeVars, logical, folded, input>>

RenderNext == TakeEvent \/ RenderTaken

RenderSpec == Init /\ [][RenderNext]_vars

\* the physical lines of a text, as pairs <<first, last>> of positions
PhysicalLines(text) ==
    LET breaks == { i \in 1..(Len(text) - 1) : text[i] = "\r" /\ text[i + 1] = "\n" }
        starts == {1} \cup { i + 2 : i \in breaks }
        EndOf(a) == IF \E i \in breaks : i >= a
                    THEN (CHOOSE i \in breaks : i >= a /\ \A j \in breaks : j >= a => i <= j) - 1
                    ELSE Len(text)
    IN  { <<a, EndOf(a)>> : a \in starts }

\* length of the UTF-8 encoding of s[a..b]
RECURSIVE OctetLen(_, _, _)
OctetLen(s, a, b) ==
    IF a > b THEN 0
    ELSE IF a = b THEN UTF8Len(s[a])
    ELSE LET h == (a + b) \div 2
         IN  OctetLen(s, a, h) + OctetLen(s, h + 1, b)

\* C15: every physical line of the rendered text is at most 75 octets long.
C15_LinesAtMost75Octets ==
    (IsSome(ics) /\ ~Val(ics).threw) =>
        \A seg \in PhysicalLines(Val(ics).text) :
            OctetLen(Val(ics).text, seg[1], seg[2]) <= FOLD_AT

\* C17: no physical line of the rendered text ends with the backslash of an
\* escape pair (an odd run of backslashes at its end).
C17_NoBreakInsideEscapePair ==
    (IsSome(ics) /\ ~Val(ics).threw) =>
        LET text == Val(ics).text
            TrailingBackslashes(seg) ==
                Cardinality({ i \in seg[1]..seg[2] :
                                \A j \in i..seg[2] : text[j] = "\\" })
        IN  \A seg \in PhysicalLines(text) :
                TrailingBackslashes(seg) % 2 = 0

\* s contains pat
Contains(s, pat) ==
    \E i \in 1..(Len(s) - Len(pat) + 1) : SubSeq(s, i, i + Len(pat) - 1) = pat

STR_MAILTO_TOKEN == <<"m","a","i","l","t","o",":">>

\* C18: the rendered text nowhere has mailto: interrupted by a fold break.
C18_NoBreakInsideMailto ==
    (IsSome(ics) /\ ~Val(ics).threw) =>
        \A k \in 1..(Len(STR_MAILTO_TOKEN) - 1) :
            ~Contains(Val(ics).text,
                      SubSeq(STR_MAILTO_TOKEN, 1, k) \o STR_FOLD
                      \o SubSeq(STR_MAILTO_TOKEN, k + 1, Len(STR_MAILTO_TOKEN)))

\* C19: the rendered text has no LF that does not follow a CR and does not
\* end with a line terminator.
C19_NoBareLineFeed ==
    (IsSome(ics) /\ ~Val(ics).threw) =>
        LET text == Val(ics).text
        IN  /\ \A i \in 1..Len(text) :
                  text[i] = "\n" => (i > 1 /\ text[i - 1] = "\r")
            /\ text[Len(text)] \notin {"\r", "\n"}

\* the logical lines of a text: the text unfolded and cut at CRLF, in order
LogicalLines(text) ==
    LET u == Unfold(text)
        segs == PhysicalLines(u)
    IN  [ k \in 1..Cardinality(segs) |->
            LET seg == CHOOSE x \in segs :
                           Cardinality({ y \in segs : y[1] < x[1] }) = k - 1
            IN  SubSeq(u, seg[1], seg[2]) ]

\* the ATTENDEE lines of a text, in order
AttendeeLinesOf(text) ==
    SelectSeq(LogicalLines(text), LAMBDA l : StartsWith(l, <<"A","T","T","E","N","D","E","E">>))

\* C22: an ATTENDEE line with ROLE=REQ-PARTICIPANT has RSVP=TRUE and one with
\* ROLE=OPT-PARTICIPANT has RSVP=FALSE.
C22_RsvpFollowsRole ==
    (IsSome(ics) /\ ~Val(ics).threw) =>
        LET att == AttendeeLinesOf(Val(ics).text)
        IN  \A i \in 1..Len(att) :
              /\ Contains(att[i], <<"R","O","L","E","=","R","E","Q","-","P","A","R","T","I","C","I","P","A","N","T">>) =>
                    (Contains(att[i], <<"R","S","V","P","=","T","R","U","E">>) /\ ~Contains(att[i], <<"R","S","V","P","=","F","A","L","S","E">>))
              /\ Contains(att[i], <<"R","O","L","E","=","O","P","T","-","P","A","R","T","I","C","I","P","A","N","T">>) =>
                    (Contains(att[i], <<"R","S","V","P","=","F","A","L","S","E">>) /\ ~Contains(att[i], <<"R","S","V","P","=","T","R","U","E">>))

\* C23: an event without attendees renders exactly one ATTENDEE line, whose
\* CN and mailto are those of the ORGANIZER line of the document.
C23_LoneAttendeeIsOrganizer ==
    (/\ IsSome(ics) /\ ~Val(ics).threw
     /\ (Val(input).attendees = None \/ Val(input).attendees = Some(<<>>))) =>
        LET lines == LogicalLines(Val(ics).text)
            att == AttendeeLinesOf(Val(ics).text)
            org == SelectSeq(lines, LAMBDA l : StartsWith(l, <<"O","R","G","A","N","I","Z","E","R">>))
        IN  /\ Len(att) = 1 /\ Len(org) = 1
            /\ \E k \in 1..Len(org[1]) :
                  LET cn == SubSeq(org[1], Len(STR_ORGANIZER_CN) + 1, k - 1)
                      mailto == SubSeq(org[1], k, Len(org[1]))
                  IN  /\ StartsWith(mailto, STR_MAILTO)
                      /\ StartsWith(att[1], <<"A","T","T","E","N","D","E","E",";","C","N","=">> \o cn \o <<";">>)
                      /\ EndsWith(att[1], mailto)

\* the properties in the order of the output contract
LineOrder ==
    << <<"B","E","G","I","N",":","V","C","A","L","E","N","D","A","R">>, <<"V","E","R","S","I","O","N">>, <<"P","R","O","D","I","D">>, <<"C","A","L","S","C","A","L","E">>, <<"M","E","T","H","O","D">>,
       <<"B","E","G","I","N",":","V","E","V","E","N","T">>, <<"U","I","D">>, <<"S","E","Q","U","E","N","C","E">>, <<"D","T","S","T","A","M","P">>, <<"D","T","S","T","A","R","T">>, <<"D","T","E","N","D">>,
       <<"S","U","M","M","A","R","Y">>, <<"D","E","S","C","R","I","P","T","I","O","N">>, <<"L","O","C","A","T","I","O","N">>, <<"O","R","G","A","N","I","Z","E","R">>, <<"A","T","T","E","N","D","E","E">>,
       <<"S","T","A","T","U","S">>, <<"E","N","D",":","V","E","V","E","N","T">>, <<"E","N","D",":","V","C","A","L","E","N","D","A","R">> >>

\* the property a logical line belongs to: the text before the first ':' or
\* ';', the whole line for BEGIN and END
LineKey(l) ==
    LET stops == { i \in 1..Len(l) : l[i] \in {":", ";"} }
        name == IF stops = {} THEN l
                ELSE SubSeq(l, 1, (CHOOSE i \in stops : \A j \in stops : i <= j) - 1)
    IN  IF name \in {<<"B","E","G","I","N">>, <<"E","N","D">>} THEN l ELSE name

\* C24: the logical lines come in the order of the output contract, every
\* property but ATTENDEE at most once, the ATTENDEE lines in the order of the
\* attendee list.
C24_LinesInContractOrder ==
    (IsSome(ics) /\ ~Val(ics).threw) =>
        LET lines == LogicalLines(Val(ics).text)
            Rank(l) == CHOOSE r \in 1..Len(LineOrder) : LineOrder[r] = LineKey(l)
            att == AttendeeLinesOf(Val(ics).text)
            listed == IF IsSome(Val(input).attendees)
                      THEN SelectSeq(Val(Val(input).attendees),
                                     LAMBDA a : TruthyStr(a.email))
                      ELSE <<>>
        IN  /\ \A i \in 1..Len(lines) :
                  \E r \in 1..Len(LineOrder) : LineOrder[r] = LineKey(lines[i])
            /\ \A i \in 1..(Len(lines) - 1) :
                  \/ Rank(lines[i]) < Rank(lines[i + 1])
                  \/ /\ LineKey(lines[i]) = <<"A","T","T","E","N","D","E","E">>
                     /\ LineKey(lines[i + 1]) = <<"A","T","T","E","N","D","E","E">>
            /\ lines[1] = <<"B","E","G","I","N",":","V","C","A","L","E","N","D","A","R">>
            /\ lines[Len(lines)] = <<"E","N","D",":","V","C","A","L","E","N","D","A","R">>
            /\ listed # <<>> =>
                  /\ Len(att) = Len(listed)
                  /\ \A i \in 1..Len(att) :
                        EndsWith(att[i], <<"m","a","i","l","t","o",":">> \o Val(listed[i].email))

\* C28: every rendered document has at least one ATTENDEE line.
C28_AtLeastOneAttendee ==
    (IsSome(ics) /\ ~Val(ics).threw) =>
        Len(AttendeeLinesOf(Val(ics).text)) >= 1

-----------------------------------------------------------------------------
(* lib/calendar-store.ts: saveInviteMeta run by two processes on one file.   *)
(* readFileSync and writeFileSync are the steps; nothing locks the file     *)
(* between them.                                                            *)

Uid0 == <<"m","0","@","x",".","j","p">>

\* a snapshot for uid u with sequence n
MetaOf(u, n) ==
    [uid |-> u, dtstart |-> BasicStr(T1), dtend |-> BasicStr(T2),
     sequence |-> n, organizerLine |-> OrgLineBoss]

\* what the file holds when the processes start: nothing, a snapshot of
\* another uid, or snapshots of another uid and of the uid process 1 saves
PriorStores ==
    { [u \in {} |-> None],
      saveInviteMeta([u \in {} |-> None], MetaOf(Uid0, 0)),
      saveInviteMeta(saveInviteMeta([u \in {} |-> None], MetaOf(Uid0, 1)),
                     MetaOf(Uid1, 0)) }

\* the snapshot a process is called with: process 1 saves Uid1, process 2 Uid2
MetasOf(p) ==
    { MetaOf(IF p = 1 THEN Uid1 ELSE Uid2, n) : n \in {1, MaxSeq} }

\* the file as the processes find it; nothing else has happened
StoreInit ==
    /\ config = CHOOSE c \in RouteConfigs : TRUE
    /\ orig = None /\ cur = None /\ lastOp = "none" /\ lastPatch = None
    /\ chain = <<>>
    /\ store \in PriorStores
    /\ before = store
    /\ sent = <<>> /\ resp = NoResp /\ transporter = "none" /\ posted = None
    /\ saving = [p \in Procs |-> Idle]
    /\ logical = None /\ folded = None
    /\ input = None /\ ics = None

\* saveInviteMeta(meta) is entered
CallSave(p) ==
    /\ saving[p].pc = "idle"
    /\ \E meta \in MetasOf(p) :
         saving' = [saving EXCEPT ![p] = [pc |-> "read", meta |-> Some(meta),
                                          local |-> None]]
    /\ UNCHANGED <<config, libVars, routeVars, before, textVars>>

\* const store = readStore(); store[meta.uid] = meta
ReadStore(p) ==
    /\ saving[p].pc = "read"
    /\ saving' = [saving EXCEPT
                    ![p].pc = "write",
                    ![p].local = Some(saveInviteMeta(store, Val(saving[p].meta)))]
    /\ UNCHANGED <<config, libVars, routeVars, before, textVars>>

\* writeStore(store)
WriteStore(p) ==
    /\ saving[p].pc = "write"
    /\ store' = Val(saving[p].local)
    /\ saving' = [saving EXCEPT ![p].pc = "done"]
    /\ UNCHANGED <<config, libVars, sent, resp, transporter, posted, before, textVars>>

StoreNext ==
    \/ \E p \in Procs : CallSave(p)
    \/ \E p \in Procs : ReadStore(p)
    \/ \E p \in Procs : WriteStore(p)

StoreSpec == StoreInit /\ [][StoreNext]_vars

\* C27: after two processes have run saveInviteMeta for two different uids,
\* in any interleaving of their reads and writes, the store holds both
\* snapshots and every snapshot it held before for another uid, unchanged.
C27_BothSnapshotsSurvive ==
    (\A p \in Procs : saving[p].pc = "done") =>
        /\ \A p \in Procs :
              getInviteMeta(store, Val(saving[p].meta).uid) = saving[p].meta
        /\ \A u \in DOMAIN before :
              (\A p \in Procs : Val(saving[p].meta).uid # u) =>
                  getInviteMeta(store, u) = Some(before[u])

====
